---- MODULE Spec2Model ----
(***************************************************************************)
(* A model of BitfieldEncoder (src/src/index.ts): the constructor's schema *)
(* validation, encode, decode, manipulate and getIndex.                    *)
(*                                                                         *)
(* The class computes with JavaScript numbers.  Its arithmetic (+, -, <,   *)
(* >=) is exact on the integers that occur here (all below 2^53), while    *)
(* its bitwise operators (<<, >>, &, |) first convert each operand to a    *)
(* signed 32-bit integer and take the shift count modulo 32.  The model    *)
(* keeps both: a JS number is a pair of limbs (Num), a 32-bit operand is   *)
(* an integer in -2^31 .. 2^31 - 1.                                        *)
(*                                                                         *)
(* A schema is the sequence Object.entries(encodingSchema) yields; a key   *)
(* is identified with its position in that sequence.  A schema item and a  *)
(* data object are records/functions whose absent properties are absent    *)
(* from the DOMAIN.  Only integer-valued numbers are modelled.             *)
(***************************************************************************)
EXTENDS Integers, Sequences, FiniteSets, TLC

VARIABLES
    encodingSchema,  \* this.encodingSchema (<<>> until the constructor assigns it)
    pc,              \* "new": no encoder yet; "idle": constructed, no call pending;
                     \* "returned": a call has just returned or thrown; "failed": the constructor threw
    op,              \* the call: "none", "constructor", "encode", "decode", "manipulate", "getIndex"
    args,            \* its arguments
    ret              \* what it returned or threw

vars == <<encodingSchema, pc, op, args, ret>>

----------------------------------------------------------------------------
(* Bounds of the model *)

\* longest schema whose layout (constructor, getIndex) is explored
MaxFields == 3
\* longest schema on which every combination of field values is explored
MaxCodecFields == 2

(* Constants of the program *)

\* index.ts:55  numBits > 51
MaxNumBits == 51
\* index.ts:69  totalNumBits > 52, and index.ts:186  shift: 52 - numBits
MaxTotalBits == 52

----------------------------------------------------------------------------
(* JavaScript numbers (integer-valued): value = hi * 2^26 + lo *)

Limb == 2^26
MinInt32 == -2147483647 - 1

Num(i) == [hi |-> i \div Limb, lo |-> i % Limb]

NumPow2(n) == IF n < 26 THEN [hi |-> 0, lo |-> 2^n] ELSE [hi |-> 2^(n - 26), lo |-> 0]

NumLess(x, y) == x.hi < y.hi \/ (x.hi = y.hi /\ x.lo < y.lo)

NumGeq(x, y) == ~NumLess(x, y)

NumAdd(x, y) ==
    LET l == x.lo + y.lo
    IN  [hi |-> x.hi + y.hi + (l \div Limb), lo |-> l % Limb]

NumDec(x) == IF x.lo = 0 THEN [hi |-> x.hi - 1, lo |-> Limb - 1] ELSE [hi |-> x.hi, lo |-> x.lo - 1]

RECURSIVE NumTimesPow2(_, _)
NumTimesPow2(x, n) == IF n = 0 THEN x ELSE NumTimesPow2(NumAdd(x, x), n - 1)

\* ECMAScript ToInt32: the value modulo 2^32, read as a signed 32-bit integer
ToInt32(x) ==
    LET h == x.hi % 64
    IN  IF h >= 32 THEN (h - 64) * Limb + x.lo ELSE h * Limb + x.lo

\* bit i (0..30) of a 32-bit integer in two's complement; bit 31 is a < 0
Bit(a, i) == (a \div 2^i) % 2

\* a << count
ShiftLeft(a, count) ==
    LET s == count % 32
    IN  IF s = 0 THEN a
        ELSE IF s = 31 THEN (IF a % 2 = 1 THEN MinInt32 ELSE 0)
        ELSE LET low == (a % 2^(31 - s)) * 2^s
             IN  IF Bit(a, 31 - s) = 1 THEN low + MinInt32 ELSE low

\* a >> count (sign-propagating)
ShiftRight(a, count) ==
    LET s == count % 32
    IN  IF s = 31 THEN (IF a < 0 THEN -1 ELSE 0) ELSE a \div 2^s

RECURSIVE BitAnd(_, _)
\* a & b, bit by bit from the lowest; a \div 2 keeps the sign, as two's complement does
BitAnd(a, b) ==
    IF a = 0 \/ b = 0 THEN 0
    ELSE IF a = -1 THEN b
    ELSE IF b = -1 THEN a
    ELSE 2 * BitAnd(a \div 2, b \div 2) + (a % 2) * (b % 2)

RECURSIVE BitOr(_, _)
\* a | b
BitOr(a, b) ==
    IF a = 0 THEN b
    ELSE IF b = 0 THEN a
    ELSE IF a = -1 \/ b = -1 THEN -1
    ELSE 2 * BitOr(a \div 2, b \div 2) + (IF a % 2 = 1 \/ b % 2 = 1 THEN 1 ELSE 0)

----------------------------------------------------------------------------
(* Schema items and results *)

Flag == [type |-> "Boolean"]
FlagBits(n) == [type |-> "Boolean", numBits |-> n]
UnsignedInt(n) == [type |-> "Number", numBits |-> n]

HasNumBits(item) == "numBits" \in DOMAIN item

\* the destructuring default  numBits = type === Boolean ? 1 : 0
NumBitsOf(item) ==
    IF HasNumBits(item) THEN item.numBits
    ELSE IF item.type = "Boolean" THEN 1 ELSE 0

Returned(v) == [ok |-> TRUE, value |-> v]
Thrown(e) == [ok |-> FALSE, error |-> e]

----------------------------------------------------------------------------
(* constructor *)

\* what one field adds to the constructor's total:  numBits || 1
CountedBits(item) == IF HasNumBits(item) /\ item.numBits # 0 THEN item.numBits ELSE 1

RECURSIVE ConstructorLoop(_, _, _)
ConstructorLoop(schema, i, totalNumBits) ==
    IF i > Len(schema)
    THEN IF totalNumBits > MaxTotalBits THEN Thrown("TotalWidthExceeded") ELSE Returned(schema)
    ELSE LET item == schema[i]
         IN  IF item.type # "Boolean" /\ item.type # "Number"
             THEN Thrown("InvalidSchemaKind")
             ELSE IF item.type = "Number" /\ ~HasNumBits(item)
             THEN Thrown("MissingBitWidth")
             ELSE IF item.type = "Number" /\ (item.numBits <= 0 \/ item.numBits > MaxNumBits)
             THEN Thrown("BitWidthOutOfRange")
             ELSE IF item.type = "Boolean" /\ HasNumBits(item) /\ item.numBits # 0
             THEN Thrown("UnexpectedBitWidth")
             ELSE ConstructorLoop(schema, i + 1,
                      totalNumBits + CountedBits(item))

RECURSIVE ConstructorLoopAtLeast(_, _, _)
\* the constructor with its total check written  totalNumBits >= 52
ConstructorLoopAtLeast(schema, i, totalNumBits) ==
    IF i > Len(schema)
    THEN IF totalNumBits >= MaxTotalBits THEN Thrown("TotalWidthExceeded") ELSE Returned(schema)
    ELSE LET item == schema[i]
         IN  IF item.type # "Boolean" /\ item.type # "Number"
             THEN Thrown("InvalidSchemaKind")
             ELSE IF item.type = "Number" /\ ~HasNumBits(item)
             THEN Thrown("MissingBitWidth")
             ELSE IF item.type = "Number" /\ (item.numBits <= 0 \/ item.numBits > MaxNumBits)
             THEN Thrown("BitWidthOutOfRange")
             ELSE IF item.type = "Boolean" /\ HasNumBits(item) /\ item.numBits # 0
             THEN Thrown("UnexpectedBitWidth")
             ELSE ConstructorLoopAtLeast(schema, i + 1,
                      totalNumBits + CountedBits(item))

constructorAtLeast(schema) == ConstructorLoopAtLeast(schema, 1, 0)

RECURSIVE ConstructorLoopWidthTo52(_, _, _)
\* the constructor with its width check written  numBits > 52
ConstructorLoopWidthTo52(schema, i, totalNumBits) ==
    IF i > Len(schema)
    THEN IF totalNumBits > MaxTotalBits THEN Thrown("TotalWidthExceeded") ELSE Returned(schema)
    ELSE LET item == schema[i]
         IN  IF item.type # "Boolean" /\ item.type # "Number"
             THEN Thrown("InvalidSchemaKind")
             ELSE IF item.type = "Number" /\ ~HasNumBits(item)
             THEN Thrown("MissingBitWidth")
             ELSE IF item.type = "Number" /\ (item.numBits <= 0 \/ item.numBits > MaxNumBits + 1)
             THEN Thrown("BitWidthOutOfRange")
             ELSE IF item.type = "Boolean" /\ HasNumBits(item) /\ item.numBits # 0
             THEN Thrown("UnexpectedBitWidth")
             ELSE ConstructorLoopWidthTo52(schema, i + 1,
                      totalNumBits + CountedBits(item))

constructorWidthTo52(schema) == ConstructorLoopWidthTo52(schema, 1, 0)

constructor(schema) == ConstructorLoop(schema, 1, 0)

----------------------------------------------------------------------------
(* Values of a data object: typeof value and, for a boolean or number, the value *)

BoolV(b) == [type |-> "boolean", value |-> b]
NumV(n) == [type |-> "number", value |-> n]
StrV == [type |-> "string"]

----------------------------------------------------------------------------
(* encode *)

RECURSIVE EncodeLoop(_, _, _, _, _)
EncodeLoop(schema, data, i, result, offset) ==
    IF i > Len(schema) THEN Returned(Num(result))
    ELSE LET type == schema[i].type
             numBits == NumBitsOf(schema[i])
         IN  IF i \notin DOMAIN data
             THEN Thrown("MissingField")
             ELSE IF data[i].type # "boolean" /\ data[i].type # "number"
             THEN Thrown("TypeMismatch")
             ELSE IF type = "Boolean"
             THEN IF data[i].type # "boolean"
                  THEN Thrown("TypeMismatch")
                  ELSE EncodeLoop(schema, data, i + 1,
                           BitOr(result, ShiftLeft(IF data[i].value THEN 1 ELSE 0, offset)),
                           offset + numBits)
             ELSE IF type = "Number"
             THEN IF data[i].type # "number"
                  THEN Thrown("TypeMismatch")
                  ELSE IF NumGeq(data[i].value, Num(ShiftLeft(1, numBits)))
                          \/ NumLess(data[i].value, Num(0))
                  THEN Thrown("ValueOutOfRange")
                  ELSE EncodeLoop(schema, data, i + 1,
                           BitOr(result, ShiftLeft(ToInt32(data[i].value), offset)),
                           offset + numBits)
             ELSE Thrown("UnsupportedType")

encode(schema, data) == EncodeLoop(schema, data, 1, 0, 0)

----------------------------------------------------------------------------
(* decode *)

RECURSIVE DecodeLoop(_, _, _, _, _)
DecodeLoop(schema, packedData, i, result, offset) ==
    IF i > Len(schema) THEN Returned(result)
    ELSE LET type == schema[i].type
             numBits == NumBitsOf(schema[i])
             value == BitAnd(ShiftRight(ToInt32(packedData), offset),
                             ToInt32(NumDec(Num(ShiftLeft(1, numBits)))))
         IN  DecodeLoop(schema, packedData, i + 1,
                 (i :> (IF type = "Boolean" THEN BoolV(value # 0) ELSE NumV(Num(value)))) @@ result,
                 offset + numBits)

\* decode with a check that the packed value is not negative
decodeNonNegative(schema, packedData) ==
    IF packedData.type # "number" \/ NumLess(packedData.value, Num(0))
    THEN Thrown("InvalidPackedValue")
    ELSE DecodeLoop(schema, packedData.value, 1, <<>>, 0)

decode(schema, packedData) ==
    IF packedData.type # "number" THEN Thrown("InvalidPackedValue")
    ELSE DecodeLoop(schema, packedData.value, 1, <<>>, 0)

----------------------------------------------------------------------------
(* manipulate *)

\* { ...unpackedData, ...data }
Spread(unpackedData, data) ==
    [k \in DOMAIN unpackedData \cup DOMAIN data |->
        IF k \in DOMAIN data THEN data[k] ELSE unpackedData[k]]

manipulate(schema, packedData, data) ==
    LET unpackedData == decode(schema, packedData)
    IN  IF ~unpackedData.ok THEN unpackedData
        ELSE encode(schema, Spread(unpackedData.value, data))

----------------------------------------------------------------------------
(* getIndex *)

RECURSIVE StartLoopInclusive(_, _, _, _)
\* the start loop with the break after the addition
StartLoopInclusive(schema, key, i, start) ==
    IF i > Len(schema) THEN start
    ELSE IF i = key THEN start + NumBitsOf(schema[i])
    ELSE StartLoopInclusive(schema, key, i + 1, start + NumBitsOf(schema[i]))

RECURSIVE StartLoop(_, _, _, _)
StartLoop(schema, key, i, start) ==
    IF i > Len(schema) \/ i = key THEN start
    ELSE StartLoop(schema, key, i + 1, start + NumBitsOf(schema[i]))

getIndex(schema, key) ==
    IF key \notin DOMAIN schema THEN Thrown("UnknownField")
    ELSE LET type == schema[key].type
             numBits == NumBitsOf(schema[key])
             start == StartLoop(schema, key, 1, 0)
         IN  Returned([start |-> start,
                       end |-> start + numBits,
                       numBits |-> numBits,
                       mask |-> NumDec(Num(ShiftLeft(1, numBits))),
                       shift |-> MaxTotalBits - numBits,
                       max |-> NumDec(Num(ShiftLeft(1, numBits))),
                       min |-> 0,
                       type |-> type])

----------------------------------------------------------------------------
(* Inputs *)

\* a property that is not there
Missing == [type |-> "missing"]

\* the object whose property i is t[i], for every i where t[i] is there
Object(t) == [i \in {j \in DOMAIN t : t[j] # Missing} |-> t[i]]

LayoutWidths == {-1, 0, 1, 2, 4, 5, 16, 26, 27, 31, 32, 50, 51, 52}

LayoutItems ==
    {Flag, FlagBits(0), FlagBits(1), [type |-> "String"], [type |-> "Number"]}
        \cup {UnsignedInt(n) : n \in LayoutWidths}

LayoutSchemas == UNION {[1..n -> LayoutItems] : n \in 0..MaxFields}

CodecItems == {Flag, FlagBits(0), UnsignedInt(4), UnsignedInt(16), UnsignedInt(31), UnsignedInt(33)}

ReadmeSchema == <<Flag, UnsignedInt(4), UnsignedInt(5)>>

NamedSchemas ==
    {ReadmeSchema,
     <<UnsignedInt(16), UnsignedInt(16), Flag>>,
     <<UnsignedInt(20), UnsignedInt(20)>>,
     <<UnsignedInt(30), Flag, Flag>>,
     <<UnsignedInt(51), Flag>>,
     <<UnsignedInt(52)>>,
     <<UnsignedInt(51), Flag, Flag>>}

CodecSchemas == UNION {[1..n -> CodecItems] : n \in 0..MaxCodecFields} \cup NamedSchemas

\* what a caller may pass for one field to encode
EncodeChoices(item) ==
    IF item.type = "Boolean"
    THEN {BoolV(TRUE), BoolV(FALSE), NumV(Num(1)), StrV, Missing}
    ELSE {NumV(Num(0)), NumV(Num(5)), NumV(NumDec(NumPow2(item.numBits))), NumV(NumPow2(item.numBits)),
          NumV(Num(-1)), BoolV(TRUE), StrV, Missing}

\* the field values from which the packed argument of manipulate is encoded
PackedChoices(item) ==
    IF item.type = "Boolean"
    THEN {BoolV(TRUE), BoolV(FALSE)}
    ELSE {NumV(Num(0)), NumV(Num(1)), NumV(NumDec(NumPow2(item.numBits)))}

\* what a caller may pass for one field to manipulate
UpdateChoices(item) ==
    IF item.type = "Boolean"
    THEN {BoolV(TRUE), BoolV(FALSE), NumV(Num(1)), Missing}
    ELSE {NumV(Num(0)), NumV(Num(5)), NumV(NumPow2(item.numBits)), BoolV(TRUE), Missing}

Choices(use, item) ==
    IF use = "encode" THEN EncodeChoices(item)
    ELSE IF use = "packed" THEN PackedChoices(item)
    ELSE UpdateChoices(item)

RECURSIVE Pick(_, _, _)
\* every sequence t of length n with t[i] \in Choices(use, items[i])
Pick(items, n, use) ==
    IF n = 0 THEN {<<>>}
    ELSE {Append(t, v) : t \in Pick(items, n - 1, use), v \in Choices(use, items[n])}

PackedInputs ==
    {StrV, NumV(Num(-1)), NumV(Num(MinInt32)), NumV(Num(0)), NumV(Num(1)), NumV(Num(161)),
     NumV(Num(1023)), NumV(NumPow2(31)), NumV(NumAdd(NumPow2(32), Num(1))),
     NumV(NumDec(NumPow2(MaxTotalBits)))}

----------------------------------------------------------------------------
(* The encoder: one object, constructed once, then called any number of times, *)
(* one call at a time                                                          *)

Init ==
    /\ encodingSchema = <<>>
    /\ pc = "new"
    /\ op = "none"
    /\ args = <<>>
    /\ ret = <<>>

Construct(schema) ==
    /\ pc = "new"
    /\ op' = "constructor"
    /\ args' = [encodingSchema |-> schema]
    /\ ret' = constructor(schema)
    /\ pc' = IF constructor(schema).ok THEN "returned" ELSE "failed"
    /\ encodingSchema' = IF constructor(schema).ok THEN schema ELSE encodingSchema

ConstructLayout == pc = "new" /\ \E schema \in LayoutSchemas : Construct(schema)

ConstructCodec == pc = "new" /\ \E schema \in CodecSchemas : Construct(schema)

Encode ==
    /\ pc = "idle"
    /\ pc' = "returned"
    /\ \E t \in Pick(encodingSchema, Len(encodingSchema), "encode") :
          /\ op' = "encode"
          /\ args' = [data |-> Object(t)]
          /\ ret' = encode(encodingSchema, Object(t))
    /\ UNCHANGED encodingSchema

Decode ==
    /\ pc = "idle"
    /\ pc' = "returned"
    /\ \E packedData \in PackedInputs :
          /\ op' = "decode"
          /\ args' = [packedData |-> packedData]
          /\ ret' = decode(encodingSchema, packedData)
    /\ UNCHANGED encodingSchema

\* manipulate, called with a packed value that encode returned for `from`
Manipulate ==
    /\ pc = "idle"
    /\ pc' = "returned"
    /\ \E from \in Pick(encodingSchema, Len(encodingSchema), "packed"),
          t \in Pick(encodingSchema, Len(encodingSchema), "update") :
          /\ encode(encodingSchema, from).ok
          /\ op' = "manipulate"
          /\ args' = [packedData |-> NumV(encode(encodingSchema, from).value),
                      data |-> Object(t), from |-> from]
          /\ ret' = manipulate(encodingSchema, NumV(encode(encodingSchema, from).value), Object(t))
    /\ UNCHANGED encodingSchema

\* key 0 stands for a key the schema does not have
GetIndex ==
    /\ pc = "idle"
    /\ pc' = "returned"
    /\ \E key \in 0..Len(encodingSchema) :
          /\ op' = "getIndex"
          /\ args' = [key |-> key]
          /\ ret' = getIndex(encodingSchema, key)
    /\ UNCHANGED encodingSchema

\* the caller takes the result; the encoder is unchanged by the call
Return ==
    /\ pc = "returned"
    /\ pc' = "idle"
    /\ op' = "none"
    /\ args' = <<>>
    /\ ret' = <<>>
    /\ UNCHANGED encodingSchema

Next == ConstructCodec \/ Encode \/ Decode \/ Manipulate \/ GetIndex \/ Return

Spec == Init /\ [][Next]_vars

NextLayout == ConstructLayout \/ GetIndex \/ Return

SpecLayout == Init /\ [][NextLayout]_vars

----------------------------------------------------------------------------
(* What the specification says of a schema and of field values *)

\* the width the specification gives a field: 1 for a Flag, the declared width for an UnsignedInt
Width(item) == IF item.type = "Boolean" THEN 1 ELSE item.numBits

\* the item is a Flag, or an UnsignedInt with a declared width
Declared(item) == item.type = "Boolean" \/ (item.type = "Number" /\ HasNumBits(item))

\* the item is one the specification allows
ItemValid(item) ==
    \/ item.type = "Boolean" /\ (HasNumBits(item) => item.numBits = 0)
    \/ item.type = "Number" /\ HasNumBits(item) /\ item.numBits >= 1 /\ item.numBits <= 51

RECURSIVE WidthBelow(_, _)
\* the summed width of the fields declared before field i
WidthBelow(schema, i) == IF i <= 1 THEN 0 ELSE WidthBelow(schema, i - 1) + Width(schema[i - 1])

SummedWidth(schema) == WidthBelow(schema, Len(schema) + 1)

\* a boolean for a Flag, an integer in [0, 2^bits - 1] for an UnsignedInt
ValidValue(item, v) ==
    IF item.type = "Boolean" THEN v.type = "boolean"
    ELSE v.type = "number" /\ NumGeq(v.value, Num(0)) /\ NumLess(v.value, NumPow2(item.numBits))

ValidValues(schema, V) ==
    DOMAIN V = DOMAIN schema /\ \A i \in DOMAIN schema : ValidValue(schema[i], V[i])

\* 0/1 for a Flag, the integer itself for an UnsignedInt
BitValue(v) == IF v.type = "boolean" THEN (IF v.value THEN Num(1) ELSE Num(0)) ELSE v.value

RECURSIVE LayoutSum(_, _, _)
\* the sum over the first n fields of bitValue * 2^offset
LayoutSum(schema, V, n) ==
    IF n = 0 THEN Num(0)
    ELSE NumAdd(LayoutSum(schema, V, n - 1), NumTimesPow2(BitValue(V[n]), WidthBelow(schema, n)))

----------------------------------------------------------------------------
(* The claims *)

\* C1: Round trip.  For every accepted schema and every mapping V giving each Flag a
\* boolean and each UnsignedInt field an integer in [0, 2^bits - 1], encode(V)
\* returns and decode(encode(V)) equals V key for key and value for value.
C1_RoundTrip ==
    (op = "encode" /\ ValidValues(encodingSchema, args.data))
        => /\ ret.ok
           /\ decode(encodingSchema, NumV(ret.value)) = Returned(args.data)

\* C2: Wire layout.  For every accepted schema and every valid mapping V, encode(V)
\* is the sum over all fields of bitValue * 2^offset, offset being the summed width
\* of the earlier fields, and 0 <= encode(V) < 2^(total width).
C2_WireLayout ==
    (op = "encode" /\ ValidValues(encodingSchema, args.data))
        => /\ ret.ok
           /\ ret.value = LayoutSum(encodingSchema, args.data, Len(encodingSchema))
           /\ NumGeq(ret.value, Num(0))
           /\ NumLess(ret.value, NumPow2(SummedWidth(encodingSchema)))

\* C3: Patch preserves untouched fields.  For every packed P produced by encode and
\* every update U of valid values for a strict subset of the keys, manipulate(P, U)
\* returns and decodes to decode(P) with exactly U's keys replaced by U's values.
C3_PatchPreservesUntouched ==
    (/\ op = "manipulate"
     /\ DOMAIN args.data \subseteq DOMAIN encodingSchema
     /\ DOMAIN args.data # DOMAIN encodingSchema
     /\ \A k \in DOMAIN args.data : ValidValue(encodingSchema[k], args.data[k]))
        => /\ ret.ok
           /\ decode(encodingSchema, NumV(ret.value))
                = Returned(Spread(decode(encodingSchema, args.packedData).value, args.data))

\* C4: Patch with empty updates is the identity.  For every packed P produced by
\* encode, manipulate(P, {}) returns exactly P.
C4_PatchEmptyIsIdentity ==
    (op = "manipulate" /\ DOMAIN args.data = {})
        => ret = Returned(args.packedData.value)

\* C5: Range enforcement.  For every UnsignedInt field, all other fields being
\* valid, encode returns when the field's value is 0 or max = 2^bits - 1 and throws
\* ValueOutOfRange when it is -1 or max + 1.
C5_RangeEnforcement ==
    op = "encode" =>
        \A i \in DOMAIN encodingSchema :
            (/\ encodingSchema[i].type = "Number"
             /\ DOMAIN args.data = DOMAIN encodingSchema
             /\ \A j \in DOMAIN encodingSchema \ {i} : ValidValue(encodingSchema[j], args.data[j]))
                => LET max == NumDec(NumPow2(encodingSchema[i].numBits))
                   IN  /\ args.data[i] \in {NumV(Num(0)), NumV(max)} => ret.ok
                       /\ args.data[i] \in {NumV(Num(-1)), NumV(NumPow2(encodingSchema[i].numBits))}
                              => ret = Thrown("ValueOutOfRange")

C7_DecodeRejectsNonNatural ==
    op = "decode" =>
        IF args.packedData.type = "number" /\ NumGeq(args.packedData.value, Num(0))
        THEN ret.ok
        ELSE ret = Thrown("InvalidPackedValue")

\* C7 as amended: decode throws exactly when packed is not of type number; for
\* every integer, the negative ones included, it returns a mapping with one entry
\* per schema key.
C7_DecodeRejectsOnlyNonNumbers ==
    op = "decode" =>
        IF args.packedData.type = "number"
        THEN ret.ok /\ DOMAIN ret.value = DOMAIN encodingSchema
        ELSE ret = Thrown("InvalidPackedValue")

\* decode was given -1 and returned a mapping for a schema with fields
C7_Witness ==
    /\ op = "decode"
    /\ args.packedData = NumV(Num(-1))
    /\ encodingSchema # <<>>
    /\ ret.ok

\* the bit value encode writes for a field value
EncodedValue(v) == IF v.type = "boolean" THEN (IF v.value THEN 1 ELSE 0) ELSE ToInt32(v.value)

RECURSIVE OrAtStarts(_, _, _)
\* the bit values of the first n fields, each shifted to the start getIndex reports
OrAtStarts(schema, data, n) ==
    IF n = 0 THEN 0
    ELSE BitOr(OrAtStarts(schema, data, n - 1),
               ShiftLeft(EncodedValue(data[n]), getIndex(schema, n).value.start))

\* what is read at the start and with the mask getIndex reports
ReadAtStart(schema, packedData, i) ==
    LET index == getIndex(schema, i).value
        value == BitAnd(ShiftRight(ToInt32(packedData), index.start), ToInt32(index.mask))
    IN  IF index.type = "Boolean" THEN BoolV(value # 0) ELSE NumV(Num(value))

\* C8: Offset monotonicity.  getIndex of the first key starts at 0, each later key
\* starts where the key before it ends (start + numBits), so the reported ranges
\* are contiguous and disjoint; and encode writes, and decode reads, each field at
\* the start getIndex reports.
C8_OffsetMonotonicity ==
    /\ (op = "getIndex" /\ args.key \in DOMAIN encodingSchema)
           => /\ ret.ok
              /\ ret.value.end = ret.value.start + ret.value.numBits
              /\ ret.value.numBits >= 0
              /\ IF args.key = 1 THEN ret.value.start = 0
                 ELSE LET before == getIndex(encodingSchema, args.key - 1).value
                      IN  ret.value.start = before.start + before.numBits
    /\ (op = "encode" /\ ret.ok)
           => ret.value = Num(OrAtStarts(encodingSchema, args.data, Len(encodingSchema)))
    /\ (op = "decode" /\ ret.ok)
           => \A i \in DOMAIN encodingSchema :
                  ret.value[i] = ReadAtStart(encodingSchema, args.packedData.value, i)

\* getIndex of the third key of the README schema reported start 5, after 1 + 4 bits
C8_Witness ==
    /\ op = "getIndex"
    /\ encodingSchema = ReadmeSchema
    /\ args.key = 3
    /\ ret.ok
    /\ ret.value.start = 5

\* C9: Field metadata.  For every key of an accepted schema with width bits (1 for a
\* Flag), getIndex reports mask = 2^bits - 1, max = 2^bits - 1, min = 0 and
\* shift = 52 - bits.
C9_FieldMetadata ==
    (op = "getIndex" /\ args.key \in DOMAIN encodingSchema)
        => LET bits == Width(encodingSchema[args.key])
           IN  /\ ret.ok
               /\ ret.value.mask = NumDec(NumPow2(bits))
               /\ ret.value.max = NumDec(NumPow2(bits))
               /\ ret.value.min = 0
               /\ ret.value.shift = 52 - bits

\* C10: Patch validation.  For every packed P produced by encode, manipulate(P, U)
\* throws if and only if some schema key present in U carries a wrongly-typed or
\* out-of-range value, then with TypeMismatch or ValueOutOfRange and never with
\* MissingField.
C10_PatchValidation ==
    op = "manipulate" =>
        LET bad == {k \in DOMAIN args.data \cap DOMAIN encodingSchema :
                        ~ValidValue(encodingSchema[k], args.data[k])}
        IN  /\ ~ret.ok <=> bad # {}
            /\ ~ret.ok => ret.error \in {"TypeMismatch", "ValueOutOfRange"}

\* an UnsignedInt whose declared width is <= 0 or > 51
BadWidth(item) ==
    item.type = "Number" /\ HasNumBits(item) /\ (item.numBits <= 0 \/ item.numBits > 51)

\* C11 as claimed: the constructor throws BitWidthOutOfRange for every schema that
\* contains an UnsignedInt field of width <= 0 or > 51, and for no other schema.
C11_BadWidthAlwaysReported ==
    op = "constructor" =>
        (ret = Thrown("BitWidthOutOfRange")
            <=> \E i \in DOMAIN args.encodingSchema : BadWidth(args.encodingSchema[i]))

\* C11 as amended: the constructor throws for every schema that contains an
\* UnsignedInt field of width <= 0 or > 51, with BitWidthOutOfRange when every field
\* declared before the first such field is valid; and it throws BitWidthOutOfRange
\* only for a schema that contains such a field.
C11_BadWidthRejected ==
    op = "constructor" =>
        LET schema == args.encodingSchema
            bad == {i \in DOMAIN schema : BadWidth(schema[i])}
        IN  /\ bad # {} => ~ret.ok
            /\ \A i \in bad :
                   (\A j \in 1..(i - 1) : ItemValid(schema[j])) => ret = Thrown("BitWidthOutOfRange")
            /\ ret = Thrown("BitWidthOutOfRange") => bad # {}

\* a single UnsignedInt field of 52 bits was rejected for its width
C11_Witness ==
    /\ op = "constructor"
    /\ args.encodingSchema = <<UnsignedInt(52)>>
    /\ ret = Thrown("BitWidthOutOfRange")

\* what is wrong with the value given for field i, by the checks in their order:
\* key present, type matches the kind, value in range
Defect(schema, data, i) ==
    IF i \notin DOMAIN data THEN "MissingField"
    ELSE IF schema[i].type = "Boolean" /\ data[i].type # "boolean" THEN "TypeMismatch"
    ELSE IF schema[i].type = "Number" /\ data[i].type # "number" THEN "TypeMismatch"
    ELSE IF ~ValidValue(schema[i], data[i]) THEN "ValueOutOfRange"
    ELSE "none"

\* C12: encode validates the fields in declared order and stops at the first
\* offending field: it throws what is wrong with the first field that is absent,
\* wrongly typed or out of range (MissingField when that field's key is absent),
\* and a call that throws returns no packed value.
C12_FirstOffendingField ==
    op = "encode" =>
        LET offending == {i \in DOMAIN encodingSchema : Defect(encodingSchema, args.data, i) # "none"}
        IN  /\ offending # {} =>
                   LET first == CHOOSE i \in offending : \A j \in offending : i <= j
                   IN  ret = Thrown(Defect(encodingSchema, args.data, first))
            /\ ~ret.ok => "value" \notin DOMAIN ret

\* floor(x / 2^n) for a number 0 <= x < 2^52
NumDivPow2(x, n) ==
    IF n >= 26 THEN [hi |-> 0, lo |-> x.hi \div 2^(n - 26)]
    ELSE [hi |-> x.hi \div 2^n, lo |-> (x.lo \div 2^n) + (x.hi % 2^n) * 2^(26 - n)]

\* x mod 2^n for a number 0 <= x < 2^52
NumModPow2(x, n) ==
    IF n >= 26 THEN [hi |-> x.hi % 2^(n - 26), lo |-> x.lo]
    ELSE [hi |-> 0, lo |-> x.lo % 2^n]

\* floor(x / 2^offset) mod 2^bits
Extract(x, offset, bits) == NumModPow2(NumDivPow2(x, offset), bits)

\* C13: decode is total and extracts by offset and mask.  For every non-negative
\* integer packed below 2^52, decode returns a mapping with exactly one entry per
\* schema key; an UnsignedInt field's value is floor(packed / 2^offset) mod 2^bits
\* and a Flag's value is true exactly when that extracted bit is nonzero.
C13_DecodeExtracts ==
    (/\ op = "decode"
     /\ args.packedData.type = "number"
     /\ NumGeq(args.packedData.value, Num(0))
     /\ NumLess(args.packedData.value, NumPow2(52)))
        => /\ ret.ok
           /\ DOMAIN ret.value = DOMAIN encodingSchema
           /\ \A i \in DOMAIN encodingSchema :
                  LET extracted == Extract(args.packedData.value,
                                           WidthBelow(encodingSchema, i), Width(encodingSchema[i]))
                  IN  ret.value[i] = IF encodingSchema[i].type = "Boolean"
                                     THEN BoolV(extracted # Num(0))
                                     ELSE NumV(extracted)

\* C14: consistent field width.  For every schema the constructor accepts, the
\* width a field adds to the constructor's total is the width encode, decode and
\* getIndex lay the field out with; a Flag occupies exactly 1 bit whether its width
\* is absent or zero, so a Flag declared first reads bit 0 of the packed value and
\* two Flags never share a bit.
C14_ConsistentFieldWidth ==
    pc \in {"idle", "returned"} =>
        /\ \A i \in DOMAIN encodingSchema :
               NumBitsOf(encodingSchema[i]) = CountedBits(encodingSchema[i])
        /\ (op = "getIndex" /\ ret.ok) =>
               /\ ret.value.numBits = CountedBits(encodingSchema[args.key])
               /\ encodingSchema[args.key].type = "Boolean" => ret.value.end = ret.value.start + 1
        /\ (/\ op = "decode"
            /\ args.packedData.type = "number"
            /\ NumGeq(args.packedData.value, Num(0))
            /\ Len(encodingSchema) >= 1
            /\ encodingSchema[1].type = "Boolean")
               => ret.ok /\ ret.value[1] = BoolV(args.packedData.value.lo % 2 = 1)
        /\ (/\ op = "encode"
            /\ ret.ok
            /\ Len(encodingSchema) = 2
            /\ \A i \in 1..2 : encodingSchema[i].type = "Boolean")
               => ret.value = NumAdd(BitValue(args.data[1]), NumTimesPow2(BitValue(args.data[2]), 1))

====
